---- MODULE Spec2Model ----
(***************************************************************************)
(* AutoModder: the rule-based triage engine.                               *)
(*   - Modqueue  (managers/modqueue.py): scan / remove_found /             *)
(*     reapprove_found over a listing of comments and submissions;         *)
(*   - Modmail   (managers/modmail.py): scan over modmail conversations;   *)
(*   - InactivityManager (managers/inactivity.py): the activity ladder.    *)
(* Checks (checks.py) are pure functions of one item and are operators.    *)
(***************************************************************************)
EXTENDS Integers, Sequences, FiniteSets, TLC

(***************************************************************************)
(* Bounds of the model.                                                    *)
(***************************************************************************)
MaxChecks == 2          \* longest rule set handed to a scanner
MaxItems == 2           \* longest modqueue listing
MaxRoster == 11         \* longest moderators listing (ranks 1..10 are special)
MaxConversations == 2   \* number of modmail conversations that exist
MaxMods == 2            \* longest moderators listing when several subreddits are scanned
MinScore == 1           \* the --min-score threshold of the run
MinAge == 1             \* the --min-age threshold of the run

None == "None"          \* Python's None / a missing value

(***************************************************************************)
(* State.                                                                  *)
(***************************************************************************)
VARIABLES
    \* ---- Modqueue (one scanner object and the command driving it) ----
    checks,             \* self.checks: sequence of [func, qualifier]
    reapprove,          \* self.reapprove
    items_to_remove,    \* self.items_to_remove: ids, in append order
    items_to_reapprove, \* self.items_to_reapprove: ids, in append order
    mq_pc,              \* position of the modqueue command
    item,               \* the loop variable `item` of scan (NoItem outside the body)
    pulled,             \* number of items the listing has yielded so far
    remove,             \* the local `remove` of scan for `item`
    messages,           \* the local `messages` of scan for `item`
    calls,              \* indices of the checks invoked on `item`, in order
    scan_ret,           \* the pair returned by scan (<<>> before it returns)
    actions,            \* remote calls issued: sequence of [op, id, ok]
    cursor,             \* index of the bucket entry the running apply is at
    dry_run,            \* context.dry_run
    remaining,          \* subreddits the command's loop has still to take
    scan_exc,           \* the exception scan's try caught (None: none)
    \* ---- InactivityManager ----
    buckets,            \* the class-level SubredditBuckets: name -> .bucket
    im_pc,              \* position of InactivityManager.scan
    subreddits,         \* len(self.subreddits)
    order,              \* self.subreddits: the subreddits, in the order the loop takes them
    scanned,            \* number of subreddits the outer loop has taken
    roster,             \* the entries read from the moderators listing of the subreddit last taken
    fetched,            \* whether that listing was read to its end and the subreddit classified
    walk,               \* the locals of scan after the roster loop
    listings,           \* per subreddit: what its moderators listing is known to hold
    skipped,            \* <<run, subreddit>> for every roster loop that raised
    im_run,             \* which call of scan() in this process is running (1, 2)
    at_start,           \* the buckets as the running call of scan() found them
    written,            \* what the writer of print_results has put out
    consumed,           \* <<bucket, index>> of the entries whose filter object is exhausted
    \* ---- Modmail ----
    mm_checks,          \* self.checks: sequence of [func, qualifier]
    ignore_unanswered,  \* the flag check_unanswered was built with
    ignore_pending_response, \* the flag check_pending_response was built with
    items_to_archive,   \* self.items_to_archive: a set, of conversation ids
    mm_pc,              \* position of Modmail.scan
    state_idx,          \* index in self.states of the state being listed
    last_id,            \* id of the last conversation the listing yielded
    conversation,       \* the loop variable of scan (NoConversation outside the body)
    added,              \* whether items_to_archive.add(conversation) ran
    mm_calls,           \* indices of the checks invoked on it, in order
    aggregated,         \* the local `aggregated`: [owner, state] -> count
    mm_ret,             \* <<the count returned by scan>> (<<>> before)
    mm_exc,             \* the exception raised inside scan (None: none)
    mm_listed,          \* what the listings yielded: [state, id, added] per occurrence
    mm_todo,            \* archive_found: the conversations its loop has still to take
    mm_actions          \* archive_found: calls issued and lines logged, [op, id, ok]

mqvars == <<checks, reapprove, items_to_remove, items_to_reapprove, mq_pc,
            item, pulled, remove, messages, calls, scan_ret, actions, cursor,
            dry_run, remaining, scan_exc>>

imvars == <<buckets, im_pc, subreddits, order, scanned, roster, fetched, walk,
            listings, skipped, im_run, at_start, written, consumed>>

mmvars == <<mm_checks, ignore_unanswered, ignore_pending_response,
            items_to_archive, mm_pc, state_idx, last_id, conversation, added,
            mm_calls, aggregated, mm_ret, mm_exc, mm_listed, mm_todo,
            mm_actions>>

vars == <<mqvars, imvars, mmvars>>

(***************************************************************************)
(* checks.py                                                               *)
(***************************************************************************)
Qualifiers == {"ANY", "ALL"}

QueueCheckFuncs == {"check_score", "check_age", "check_removed_by_automated_spam"}

Scores == {MinScore - 1, MinScore}
Ages == {MinAge - 1, MinAge}

\* The attributes of a Comment / Submission the scanner and the checks read.
\* age stands for now - created_utc; banned_by is "True" for the value True.
\* missing names the attribute the object lacks (None: it has them all).
ItemAttrs ==
    [approved_by : {None, "mod"},
     score : Scores,
     age : Ages,
     removed_by_category : {None, "reddit"},
     banned_by : {None, "True"},
     ban_note : {None, "spam"},
     missing : {None}]

check_score_inclusive(min_score, it) == it.score <= min_score

check_score(min_score, it) == it.score < min_score

check_age(min_age, it) == it.age >= min_age

check_removed_by_automated_spam(it) ==
    LET first == it.removed_by_category = "reddit"
        results == IF it.banned_by = "True"
                   THEN <<first, it.ban_note = "spam">>
                   ELSE <<first>>
    IN \E k \in 1..Len(results) : results[k]

\* Check.__call__: run the wrapped function on the item.
CheckCall(check, it) ==
    CASE check.func = "check_score" -> check_score(MinScore, it)
      [] check.func = "check_age" -> check_age(MinAge, it)
      [] check.func = "check_removed_by_automated_spam" ->
            check_removed_by_automated_spam(it)

\* Whether the wrapped function raises AttributeError on the item: it reads
\* item.score, item.created_utc, or item.banned_by and (when that is True)
\* item.ban_note; removed_by_category is read with getattr(..., None).
CheckRaises(check, it) ==
    CASE check.func = "check_score" -> it.missing = "score"
      [] check.func = "check_age" -> it.missing = "created_utc"
      [] check.func = "check_removed_by_automated_spam" ->
            \/ it.missing = "banned_by"
            \/ it.banned_by = "True" /\ it.missing = "ban_note"

\* Modqueue._log_prefix: whether building the prefix of a log line for the
\* item raises (it reads item.created_utc).
LogPrefixRaises(it) == it.missing = "created_utc"

\* The value of `item` while scan is not inside its loop body.
NoItem ==
    [id |-> 0,
     attrs |-> [approved_by |-> None, score |-> 0, age |-> 0,
                removed_by_category |-> None, banned_by |-> None,
                ban_note |-> None, missing |-> None]]

\* The attributes an item can lack, and the field that stands for each.
AttrNames ==
    {"approved_by", "score", "created_utc", "removed_by_category", "banned_by",
     "ban_note"}

FieldOf(name) == IF name = "created_utc" THEN "age" ELSE name

\* The items a listing that breaks its contract can yield: one attribute is
\* missing (its field then holds the field's value in NoItem).
MalformedAttrs ==
    {[a EXCEPT !.missing = m, ![FieldOf(m)] = NoItem.attrs[FieldOf(m)]] :
        a \in ItemAttrs, m \in AttrNames}

QueueChecks == [func : QueueCheckFuncs, qualifier : Qualifiers]

RECURSIVE SeqsUpTo(_, _)
SeqsUpTo(S, n) ==
    IF n = 0 THEN {<<>>}
    ELSE LET shorter == SeqsUpTo(S, n - 1)
         IN shorter \cup {Append(s, x) : s \in {t \in shorter : Len(t) = n - 1}, x \in S}

(***************************************************************************)
(* Modqueue.scan: the body of `for item in self.listing`.                  *)
(***************************************************************************)
Truthy(v) == v /= None

\* The inner `for check in self.checks` loop from check number i on.  acc
\* carries the locals remove and messages, the instrumentation calls,
\* bypass (whether items_to_reapprove.append(item) ran) and raised (whether
\* a read of a missing attribute raised, which ends the loop).
RECURSIVE RunChecks(_, _, _, _, _)
RunChecksNoBreak(cs, reap, it, i, acc) ==
    IF i > Len(cs) THEN acc
    ELSE IF reap /\ it.missing = "approved_by" THEN [acc EXCEPT !.raised = TRUE]
    ELSE IF reap /\ Truthy(it.approved_by)
         THEN IF LogPrefixRaises(it) THEN [acc EXCEPT !.raised = TRUE]
              ELSE [acc EXCEPT !.bypass = TRUE, !.remove = FALSE]
    ELSE IF CheckRaises(cs[i], it)
         THEN [acc EXCEPT !.calls = Append(@, i), !.raised = TRUE]
    ELSE LET result == CheckCall(cs[i], it)
             acc1 == [acc EXCEPT
                        !.calls = Append(@, i),
                        !.messages = IF result THEN Append(@, cs[i].func) ELSE @,
                        !.remove = IF cs[i].qualifier = "ALL"
                                   THEN @ /\ result ELSE @]
         IN IF result /\ cs[i].qualifier = "ANY"
            THEN RunChecks(cs, reap, it, i + 1, [acc1 EXCEPT !.remove = result])
            ELSE RunChecks(cs, reap, it, i + 1, acc1)

RunChecksLastWins(cs, reap, it, i, acc) ==
    IF i > Len(cs) THEN acc
    ELSE IF reap /\ it.missing = "approved_by" THEN [acc EXCEPT !.raised = TRUE]
    ELSE IF reap /\ Truthy(it.approved_by)
         THEN IF LogPrefixRaises(it) THEN [acc EXCEPT !.raised = TRUE]
              ELSE [acc EXCEPT !.bypass = TRUE, !.remove = FALSE]
    ELSE IF CheckRaises(cs[i], it)
         THEN [acc EXCEPT !.calls = Append(@, i), !.raised = TRUE]
    ELSE LET result == CheckCall(cs[i], it)
             acc1 == [acc EXCEPT
                        !.calls = Append(@, i),
                        !.messages = IF result THEN Append(@, cs[i].func) ELSE @,
                        !.remove = IF cs[i].qualifier = "ALL"
                                   THEN result ELSE @]
         IN IF result /\ cs[i].qualifier = "ANY"
            THEN [acc1 EXCEPT !.remove = result]
            ELSE RunChecks(cs, reap, it, i + 1, acc1)

RunChecksBypassKeepsRemove(cs, reap, it, i, acc) ==
    IF i > Len(cs) THEN acc
    ELSE IF reap /\ it.missing = "approved_by" THEN [acc EXCEPT !.raised = TRUE]
    ELSE IF reap /\ Truthy(it.approved_by)
         THEN IF LogPrefixRaises(it) THEN [acc EXCEPT !.raised = TRUE]
              ELSE [acc EXCEPT !.bypass = TRUE]
    ELSE IF CheckRaises(cs[i], it)
         THEN [acc EXCEPT !.calls = Append(@, i), !.raised = TRUE]
    ELSE LET result == CheckCall(cs[i], it)
             acc1 == [acc EXCEPT
                        !.calls = Append(@, i),
                        !.messages = IF result THEN Append(@, cs[i].func) ELSE @,
                        !.remove = IF cs[i].qualifier = "ALL"
                                   THEN @ /\ result ELSE @]
         IN IF result /\ cs[i].qualifier = "ANY"
            THEN [acc1 EXCEPT !.remove = result]
            ELSE RunChecks(cs, reap, it, i + 1, acc1)

RunChecks(cs, reap, it, i, acc) ==
    IF i > Len(cs) THEN acc
    ELSE IF reap /\ it.missing = "approved_by" THEN [acc EXCEPT !.raised = TRUE]
    ELSE IF reap /\ Truthy(it.approved_by)
         THEN IF LogPrefixRaises(it) THEN [acc EXCEPT !.raised = TRUE]
              ELSE [acc EXCEPT !.bypass = TRUE, !.remove = FALSE]
    ELSE IF CheckRaises(cs[i], it)
         THEN [acc EXCEPT !.calls = Append(@, i), !.raised = TRUE]
    ELSE LET result == CheckCall(cs[i], it)
             acc1 == [acc EXCEPT
                        !.calls = Append(@, i),
                        !.messages = IF result THEN Append(@, cs[i].func) ELSE @,
                        !.remove = IF cs[i].qualifier = "ALL"
                                   THEN @ /\ result ELSE @]
         IN IF result /\ cs[i].qualifier = "ANY"
            THEN [acc1 EXCEPT !.remove = result]
            ELSE RunChecks(cs, reap, it, i + 1, acc1)

\* remove = True; messages = []  (and nothing called, bypassed or raised)
ScanLocals ==
    [remove |-> TRUE, messages |-> <<>>, calls |-> <<>>, bypass |-> FALSE,
     raised |-> FALSE]

(***************************************************************************)
(* The modqueue command for one subreddit: scan, then the two applies.     *)
(***************************************************************************)
MQInit ==
    /\ checks \in SeqsUpTo(QueueChecks, MaxChecks)
    /\ reapprove \in BOOLEAN
    /\ dry_run \in BOOLEAN
    /\ remaining = 0
    /\ items_to_remove = <<>>
    /\ items_to_reapprove = <<>>
    /\ mq_pc = "scanning"
    /\ item = NoItem
    /\ pulled = 0
    /\ remove = TRUE
    /\ messages = <<>>
    /\ calls = <<>>
    /\ scan_ret = <<>>
    /\ scan_exc = None
    /\ actions = <<>>
    /\ cursor = 0

\* `except Forbidden` and `except Exception`: what scan returns from either,
\* given the two buckets.
ExceptReturnCounts(to_remove, to_reapprove) == <<Len(to_remove), Len(to_reapprove)>>

ExceptReturn(to_remove, to_reapprove) == <<0, 0>>

\* The body of `for item in self.listing` on the item the listing yielded.
\* A read of a missing attribute, in the bypass test, in a check or in the
\* prefix of a log line, raises inside the try: the item is appended to no
\* bucket and scan returns from `except Exception`.
ScanBody(attrs) ==
    LET id == pulled + 1
        r == RunChecks(checks, reapprove, attrs, 1, ScanLocals)
        raised == r.raised \/ (r.remove /\ LogPrefixRaises(attrs))
    IN /\ item' = [id |-> id, attrs |-> attrs]
       /\ pulled' = id
       /\ remove' = r.remove
       /\ messages' = r.messages
       /\ calls' = r.calls
       /\ items_to_reapprove' = IF r.bypass THEN Append(items_to_reapprove, id)
                                ELSE items_to_reapprove
       /\ items_to_remove' = IF r.remove /\ ~raised THEN Append(items_to_remove, id)
                             ELSE items_to_remove
       /\ IF raised
          THEN /\ scan_exc' = "AttributeError"
               /\ scan_ret' = ExceptReturn(items_to_remove', items_to_reapprove')
               /\ mq_pc' = "scanned"
          ELSE UNCHANGED <<scan_exc, scan_ret, mq_pc>>

\* One iteration of `for item in self.listing`: the listing yields an item
\* and the loop body runs on it.
ScanItem ==
    /\ mq_pc = "scanning"
    /\ item = NoItem
    /\ pulled < MaxItems
    /\ \E attrs \in ItemAttrs : ScanBody(attrs)
    /\ UNCHANGED <<checks, reapprove, dry_run, remaining, actions, cursor>>
    /\ UNCHANGED <<imvars, mmvars>>

\* The same iteration on an item that lacks an attribute.
ScanMalformedItem ==
    /\ mq_pc = "scanning"
    /\ item = NoItem
    /\ pulled < MaxItems
    /\ \E attrs \in MalformedAttrs : ScanBody(attrs)
    /\ UNCHANGED <<checks, reapprove, dry_run, remaining, actions, cursor>>
    /\ UNCHANGED <<imvars, mmvars>>

\* The end of the loop body: control is back at the for statement.
ScanLoop ==
    /\ mq_pc = "scanning"
    /\ item /= NoItem
    /\ item' = NoItem /\ remove' = TRUE /\ messages' = <<>> /\ calls' = <<>>
    /\ UNCHANGED <<checks, reapprove, dry_run, remaining, items_to_remove,
                   items_to_reapprove, mq_pc, pulled, scan_ret, scan_exc,
                   actions, cursor>>
    /\ UNCHANGED <<imvars, mmvars>>

\* The listing is exhausted: scan logs the counts and returns them.
ScanReturn ==
    /\ mq_pc = "scanning"
    /\ item = NoItem
    /\ scan_ret' = <<Len(items_to_remove), Len(items_to_reapprove)>>
    /\ mq_pc' = "scanned"
    /\ UNCHANGED <<checks, reapprove, dry_run, remaining, items_to_remove,
                   items_to_reapprove, pulled, actions, cursor,
                   item, remove, messages, calls, scan_exc>>
    /\ UNCHANGED <<imvars, mmvars>>

\* The listing raises, Forbidden or any other Exception, when scan asks it
\* for its next item: scan logs and returns from the except clause.
ScanListingFails ==
    /\ mq_pc = "scanning"
    /\ item = NoItem
    /\ scan_exc' \in {"Forbidden", "Exception"}
    /\ scan_ret' = ExceptReturn(items_to_remove, items_to_reapprove)
    /\ mq_pc' = "scanned"
    /\ UNCHANGED <<checks, reapprove, dry_run, remaining, items_to_remove,
                   items_to_reapprove, pulled, actions, cursor,
                   item, remove, messages, calls>>
    /\ UNCHANGED <<imvars, mmvars>>

(***************************************************************************)
(* cli.modqueue after scan() returned, Modqueue.remove_found and           *)
(* Modqueue.reapprove_found.  An exception that leaves remove_found or     *)
(* reapprove_found is caught nowhere and ends the command.                 *)
(***************************************************************************)
scanvars == <<item, pulled, remove, messages, calls, scan_ret, scan_exc>>

\* if not context.dry_run: if remove_count: scanner.remove_found() ...
AfterScan(dry, ret) ==
    IF dry THEN "done"
    ELSE IF ret[1] /= 0 THEN "removing"
    ELSE IF ret[2] /= 0 THEN "reapproving"
    ELSE "done"

\* ... if approve_count: scanner.reapprove_found()
AfterRemove(ret) == IF ret[2] /= 0 THEN "reapproving" ELSE "done"

CommandDispatch ==
    /\ mq_pc = "scanned"
    /\ mq_pc' = AfterScan(dry_run, scan_ret)
    /\ cursor' = 1
    /\ UNCHANGED <<checks, reapprove, dry_run, remaining, items_to_remove,
                   items_to_reapprove, actions>>
    /\ UNCHANGED scanvars
    /\ UNCHANGED <<imvars, mmvars>>

Call(op, id, ok) == [op |-> op, id |-> id, ok |-> ok]

\* One iteration of remove_found: the calls it issues on the item, given
\* whether remove() and lock() succeed.
RemoveCalls(id, remove_ok, lock_ok) ==
    IF ~remove_ok THEN <<Call("remove", id, FALSE)>>
    ELSE <<Call("remove", id, TRUE), Call("lock", id, lock_ok)>>

\* Where remove_found stands after that iteration: only lock() is in a try.
RemoveOutcome(remove_ok, lock_ok) ==
    IF ~remove_ok THEN "remove_raised" ELSE "removing"

RemoveItem ==
    /\ mq_pc = "removing"
    /\ cursor <= Len(items_to_remove)
    /\ \E remove_ok \in BOOLEAN, lock_ok \in BOOLEAN :
         /\ actions' = actions \o RemoveCalls(items_to_remove[cursor], remove_ok, lock_ok)
         /\ mq_pc' = RemoveOutcome(remove_ok, lock_ok)
    /\ cursor' = cursor + 1
    /\ UNCHANGED <<checks, reapprove, dry_run, remaining, items_to_remove, items_to_reapprove>>
    /\ UNCHANGED scanvars
    /\ UNCHANGED <<imvars, mmvars>>

RemoveReturn ==
    /\ mq_pc = "removing"
    /\ cursor > Len(items_to_remove)
    /\ mq_pc' = AfterRemove(scan_ret)
    /\ cursor' = 1
    /\ UNCHANGED <<checks, reapprove, dry_run, remaining, items_to_remove,
                   items_to_reapprove, actions>>
    /\ UNCHANGED scanvars
    /\ UNCHANGED <<imvars, mmvars>>

\* One iteration of reapprove_found: approve() is in no try.
ReapproveOutcome(approve_ok) ==
    IF ~approve_ok THEN "reapprove_raised" ELSE "reapproving"

ReapproveItem ==
    /\ mq_pc = "reapproving"
    /\ cursor <= Len(items_to_reapprove)
    /\ \E approve_ok \in BOOLEAN :
         /\ actions' = Append(actions, Call("approve", items_to_reapprove[cursor], approve_ok))
         /\ mq_pc' = ReapproveOutcome(approve_ok)
    /\ cursor' = cursor + 1
    /\ UNCHANGED <<checks, reapprove, dry_run, remaining, items_to_remove, items_to_reapprove>>
    /\ UNCHANGED scanvars
    /\ UNCHANGED <<imvars, mmvars>>

ReapproveReturn ==
    /\ mq_pc = "reapproving"
    /\ cursor > Len(items_to_reapprove)
    /\ mq_pc' = "done"
    /\ UNCHANGED <<checks, reapprove, dry_run, remaining, items_to_remove,
                   items_to_reapprove, actions, cursor>>
    /\ UNCHANGED scanvars
    /\ UNCHANGED <<imvars, mmvars>>

MQNext ==
    \/ ScanItem
    \/ ScanLoop
    \/ ScanReturn
    \/ ScanListingFails
    \/ CommandDispatch
    \/ RemoveItem
    \/ RemoveReturn
    \/ ReapproveItem
    \/ ReapproveReturn

(***************************************************************************)
(* cli.modqueue as a whole: `for subreddit in subreddits`, with the rule    *)
(* set the command builds, over listings that may break their contract.    *)
(***************************************************************************)
\* context.subreddits of the run.
ContextSubreddits == <<"r/a", "r/b">>

\* [check_score(min_score), check_age(min_age), check_removed_by_automated_spam()]
CliChecks ==
    <<[func |-> "check_score", qualifier |-> "ALL"],
      [func |-> "check_age", qualifier |-> "ALL"],
      [func |-> "check_removed_by_automated_spam", qualifier |-> "ANY"]>>

\* The command is entered: the Modqueue of the first subreddit is built.
MQCommandInit ==
    /\ checks = CliChecks
    /\ reapprove \in BOOLEAN
    /\ dry_run \in BOOLEAN
    /\ remaining = Len(ContextSubreddits) - 1
    /\ items_to_remove = <<>>
    /\ items_to_reapprove = <<>>
    /\ mq_pc = "scanning"
    /\ item = NoItem
    /\ pulled = 0
    /\ remove = TRUE
    /\ messages = <<>>
    /\ calls = <<>>
    /\ scan_ret = <<>>
    /\ scan_exc = None
    /\ actions = <<>>
    /\ cursor = 0

\* The loop takes the next subreddit: a new Modqueue, with empty buckets, is
\* built on its listing.  actions restarts: it holds the calls issued on the
\* items of the subreddit being processed.
NextSubreddit ==
    /\ mq_pc = "done"
    /\ remaining > 0
    /\ remaining' = remaining - 1
    /\ items_to_remove' = <<>>
    /\ items_to_reapprove' = <<>>
    /\ mq_pc' = "scanning"
    /\ item' = NoItem
    /\ pulled' = 0
    /\ remove' = TRUE
    /\ messages' = <<>>
    /\ calls' = <<>>
    /\ scan_ret' = <<>>
    /\ scan_exc' = None
    /\ actions' = <<>>
    /\ cursor' = 0
    /\ UNCHANGED <<checks, reapprove, dry_run>>
    /\ UNCHANGED <<imvars, mmvars>>

MQCommandNext ==
    \/ MQNext
    \/ ScanMalformedItem
    \/ NextSubreddit

\* No Modqueue exists: the command that runs is another one.
NoModqueue ==
    /\ checks = <<>>
    /\ reapprove = FALSE
    /\ remaining = 0
    /\ scan_exc = None
    /\ items_to_remove = <<>>
    /\ items_to_reapprove = <<>>
    /\ mq_pc = "idle"
    /\ item = NoItem
    /\ pulled = 0
    /\ remove = TRUE
    /\ messages = <<>>
    /\ calls = <<>>
    /\ scan_ret = <<>>
    /\ actions = <<>>
    /\ cursor = 0

MQIdle == dry_run = FALSE /\ NoModqueue

(***************************************************************************)
(* managers/inactivity.py                                                  *)
(***************************************************************************)
\* A moderator is [name, is_active]; self.me.name is Me and the other
\* moderators of a listing are named by the place (>= 1) they have in it.
Me == 0

NoPosition == 0         \* my_position = None

BucketNames ==
    {"all_subreddits", "inactive", "active_top_mod", "top_active_mod",
     "no_active_mods", "inactive_top_mod", "inactive_top_2", "inactive_top_3",
     "inactive_top_5", "inactive_top_10", "active_inactive_above",
     "inactive_active_below", "only_one_active"}

\* The entries a moderators listing can yield at a place: self, if it was
\* not met yet, or another moderator; each active or not.
Moderators(place, met) ==
    [name : IF met THEN {place} ELSE {Me, place}, is_active : BOOLEAN]

contain_active(moderators) ==
    \E k \in 1..Len(moderators) : moderators[k].is_active

contain_all_inactive_nonempty(moderators) ==
    /\ moderators /= <<>>
    /\ \A k \in 1..Len(moderators) : ~moderators[k].is_active

contain_all_inactive(moderators) ==
    \A k \in 1..Len(moderators) : ~moderators[k].is_active

contain_inactive(moderators) ==
    \E k \in 1..Len(moderators) : ~moderators[k].is_active

IsInactive(mod) == ~mod.is_active

IsActive(mod) == mod.is_active

\* The locals of scan before the roster loop.
WalkStartActive ==
    [entire_sub_inactive |-> TRUE, above_me |-> <<>>, below_me |-> <<>>,
     my_position |-> NoPosition, im_active |-> TRUE]

WalkStart ==
    [entire_sub_inactive |-> TRUE, above_me |-> <<>>, below_me |-> <<>>,
     my_position |-> NoPosition, im_active |-> FALSE]

\* The body of `for position, moderator in enumerate(generator, 1)`.
WalkStepSelfAbove(w, entry, position) ==
    LET moderator == [name |-> entry.name, is_active |-> entry.is_active,
                      position |-> position]
        found == moderator.name = Me
    IN [w EXCEPT
          !.entire_sub_inactive = @ /\ ~moderator.is_active,
          !.above_me = IF w.my_position = NoPosition
                       THEN Append(@, moderator) ELSE @,
          !.below_me = IF w.my_position = NoPosition
                       THEN @ ELSE Append(@, moderator),
          !.my_position = IF found THEN position ELSE @,
          !.im_active = IF found THEN moderator.is_active ELSE @]

WalkStep(w, entry, position) ==
    LET moderator == [name |-> entry.name, is_active |-> entry.is_active,
                      position |-> position]
        found == moderator.name = Me
        w1 == [w EXCEPT
                 !.entire_sub_inactive = @ /\ ~moderator.is_active,
                 !.my_position = IF found THEN position ELSE @,
                 !.im_active = IF found THEN moderator.is_active ELSE @]
    IN IF w1.my_position = NoPosition
       THEN [w1 EXCEPT !.above_me = Append(@, moderator)]
       ELSE [w1 EXCEPT !.below_me = Append(@, moderator)]

Add(name, mods) == <<[bucket |-> name, mods |-> mods]>>

\* `match my_position, im_active`: the bucket calls it makes.
LadderNoFifth(w) ==
    LET others == SelectSeq(w.above_me, IsInactive)
    IN CASE w.my_position = 1 /\ w.im_active -> Add("active_top_mod", <<>>)
         [] w.my_position = 1 /\ ~w.im_active -> Add("inactive_top_mod", others)
         [] w.my_position = 2 /\ ~w.im_active -> Add("inactive_top_2", others)
         [] w.my_position = 3 /\ ~w.im_active -> Add("inactive_top_3", others)
         [] w.my_position = 4 /\ ~w.im_active -> Add("inactive_top_5", others)
         [] w.my_position \in 6..10 /\ ~w.im_active -> Add("inactive_top_10", others)
         [] OTHER -> <<>>

Ladder(w) ==
    LET others == SelectSeq(w.above_me, IsInactive)
    IN CASE w.my_position = 1 /\ w.im_active -> Add("active_top_mod", <<>>)
         [] w.my_position = 1 /\ ~w.im_active -> Add("inactive_top_mod", others)
         [] w.my_position = 2 /\ ~w.im_active -> Add("inactive_top_2", others)
         [] w.my_position = 3 /\ ~w.im_active -> Add("inactive_top_3", others)
         [] w.my_position \in {4, 5} /\ ~w.im_active -> Add("inactive_top_5", others)
         [] w.my_position \in {6, 7, 8, 9, 10} /\ ~w.im_active ->
                Add("inactive_top_10", others)
         [] OTHER -> <<>>

\* The bucket calls scan makes for one subreddit after its roster loop, in
\* the order it makes them.
Classify(w) ==
    Add("all_subreddits", <<>>)
    \o (IF w.entire_sub_inactive THEN Add("no_active_mods", <<>>) ELSE <<>>)
    \o Ladder(w)
    \o (IF ~w.im_active THEN Add("inactive", <<>>) ELSE <<>>)
    \o (IF w.im_active /\ contain_inactive(w.above_me)
        THEN Add("active_inactive_above", SelectSeq(w.above_me, IsInactive))
        ELSE <<>>)
    \o (IF w.im_active /\ contain_all_inactive(w.above_me)
        THEN Add("top_active_mod", SelectSeq(w.above_me, IsInactive))
        ELSE <<>>)
    \o (IF /\ w.im_active
           /\ contain_all_inactive(w.above_me)
           /\ contain_all_inactive(w.below_me)
        THEN Add("only_one_active", SelectSeq(w.above_me \o w.below_me, IsInactive))
        ELSE <<>>)
    \o (IF ~w.im_active /\ contain_active(w.below_me)
        THEN Add("inactive_active_below", SelectSeq(w.below_me, IsActive))
        ELSE <<>>)

\* SubredditBucket.__call__ for each of the calls, in order.
RECURSIVE AppendAll(_, _, _)
AppendAll(bs, sub, adds) ==
    IF adds = <<>> THEN bs
    ELSE LET a == Head(adds)
         IN AppendAll([bs EXCEPT ![a.bucket] = Append(@, [sub |-> sub, mods |-> a.mods])],
                      sub, Tail(adds))

\* The orders in which a manager can hold n subreddits, each named by the
\* number it has in the order of the first manager.
Orders(n) == {o \in [1..n -> 1..n] : \A i, j \in 1..n : o[i] = o[j] => i = j}

\* The loop variable `subreddit` of scan.
subreddit == order[scanned]

outvars == <<written, consumed>>

\* No writer has run.
NothingWritten == [writer |-> None, sheets |-> <<>>]

\* The class body has run (the buckets exist, empty) and a manager was
\* built on n subreddits, which are numbered in the order it holds them.  listings holds, for each subreddit, the entries
\* its moderators listing is known to yield and whether it ends or raises
\* there; a listing is the same every time it is read.
IMInit(n) ==
    /\ buckets = [b \in BucketNames |-> <<>>]
    /\ im_pc = "scanning"
    /\ subreddits = n
    /\ order = [i \in 1..n |-> i]
    /\ scanned = 0
    /\ roster = <<>>
    /\ fetched = FALSE
    /\ walk = WalkStart
    /\ listings = [s \in 1..n |-> [entries |-> <<>>, complete |-> FALSE,
                                    failed |-> FALSE]]
    /\ skipped = {}
    /\ im_run = 1
    /\ at_start = [b \in BucketNames |-> <<>>]
    /\ written = NothingWritten
    /\ consumed = {}

IMIdle ==
    /\ buckets = [b \in BucketNames |-> <<>>]
    /\ im_pc = "idle"
    /\ subreddits = 0
    /\ order = <<>>
    /\ scanned = 0
    /\ roster = <<>>
    /\ fetched = FALSE
    /\ walk = WalkStart
    /\ listings = <<>>
    /\ skipped = {}
    /\ im_run = 1
    /\ at_start = [b \in BucketNames |-> <<>>]
    /\ written = NothingWritten
    /\ consumed = {}

\* Rosters are long when one subreddit is scanned, short when several are.
RosterBound == IF subreddits = 1 THEN MaxRoster ELSE MaxMods

\* `for subreddit in self.subreddits` takes the next subreddit: the locals
\* are reset and the moderators listing is created.
TakeSubredditKeepsLocals ==
    /\ im_pc = "scanning"
    /\ scanned < subreddits
    /\ im_pc' = "walking"
    /\ scanned' = scanned + 1
    /\ roster' = <<>>
    /\ walk' = walk
    /\ fetched' = FALSE
    /\ UNCHANGED <<buckets, subreddits, order, listings, skipped, im_run, at_start>>
    /\ UNCHANGED outvars
    /\ UNCHANGED <<mqvars, mmvars>>

TakeSubreddit ==
    /\ im_pc = "scanning"
    /\ scanned < subreddits
    /\ im_pc' = "walking"
    /\ scanned' = scanned + 1
    /\ roster' = <<>>
    /\ walk' = WalkStart
    /\ fetched' = FALSE
    /\ UNCHANGED <<buckets, subreddits, order, listings, skipped, im_run, at_start>>
    /\ UNCHANGED outvars
    /\ UNCHANGED <<mqvars, mmvars>>

\* The entries the listing of the subreddit taken can yield next.
NextEntries ==
    LET known == listings[subreddit].entries
        place == Len(roster) + 1
    IN IF place <= Len(known) THEN {known[place]}
       ELSE IF \/ listings[subreddit].complete
               \/ listings[subreddit].failed
               \/ place > RosterBound
            THEN {}
       ELSE Moderators(place, walk.my_position /= NoPosition)

\* The moderators listing yields its next entry and the loop body runs.
ReadModerator ==
    /\ im_pc = "walking"
    /\ \E entry \in NextEntries :
         /\ roster' = Append(roster, entry)
         /\ walk' = WalkStep(walk, entry, Len(roster) + 1)
         /\ listings' = [listings EXCEPT
                            ![subreddit].entries = IF Len(roster') > Len(@) THEN roster' ELSE @]
    /\ UNCHANGED <<buckets, im_pc, subreddits, order, scanned, fetched, skipped,
                   im_run, at_start>>
    /\ UNCHANGED outvars
    /\ UNCHANGED <<mqvars, mmvars>>

\* The moderators listing raises after the entries it yielded: warning,
\* continue with the next subreddit.
RosterFailsFallsThrough ==
    /\ im_pc = "walking"
    /\ Len(roster) = Len(listings[subreddit].entries)
    /\ ~listings[subreddit].complete
    /\ listings' = [listings EXCEPT ![subreddit].failed = TRUE]
    /\ im_pc' = "scanning"
    /\ buckets' = AppendAll(buckets, subreddit, Classify(walk))
    /\ roster' = <<>>
    /\ walk' = WalkStart
    /\ skipped' = skipped \cup {<<im_run, subreddit>>}
    /\ UNCHANGED <<subreddits, order, scanned, fetched, im_run, at_start>>
    /\ UNCHANGED outvars
    /\ UNCHANGED <<mqvars, mmvars>>

RosterFails ==
    /\ im_pc = "walking"
    /\ Len(roster) = Len(listings[subreddit].entries)
    /\ ~listings[subreddit].complete
    /\ listings' = [listings EXCEPT ![subreddit].failed = TRUE]
    /\ im_pc' = "scanning"
    /\ roster' = <<>>
    /\ walk' = WalkStart
    /\ skipped' = skipped \cup {<<im_run, subreddit>>}
    /\ UNCHANGED <<buckets, subreddits, order, scanned, fetched, im_run, at_start>>
    /\ UNCHANGED outvars
    /\ UNCHANGED <<mqvars, mmvars>>

\* The moderators listing is exhausted: the subreddit is put in its buckets.
RosterEnds ==
    /\ im_pc = "walking"
    /\ Len(roster) = Len(listings[subreddit].entries)
    /\ ~listings[subreddit].failed
    /\ listings' = [listings EXCEPT ![subreddit].complete = TRUE]
    /\ buckets' = AppendAll(buckets, subreddit, Classify(walk))
    /\ fetched' = TRUE
    /\ im_pc' = "scanning"
    /\ UNCHANGED <<subreddits, order, scanned, roster, walk, skipped, im_run, at_start>>
    /\ UNCHANGED outvars
    /\ UNCHANGED <<mqvars, mmvars>>

\* The outer loop is over: scan returns.
ScanSubredditsDone ==
    /\ im_pc = "scanning"
    /\ scanned = subreddits
    /\ im_pc' = "scanned"
    /\ UNCHANGED <<buckets, subreddits, order, scanned, roster, fetched, walk,
                   listings, skipped, im_run, at_start>>
    /\ UNCHANGED outvars
    /\ UNCHANGED <<mqvars, mmvars>>

IMNext ==
    \/ TakeSubreddit
    \/ ReadModerator
    \/ RosterFails
    \/ RosterEnds
    \/ ScanSubredditsDone

\* scan() is called again in the same process, on the same manager or on a
\* new one built on the same subreddits, in the same or in another order:
\* the buckets are class attributes and are the ones the first call filled.
ScanAgain ==
    /\ im_pc = "scanned"
    /\ im_run = 1
    /\ im_run' = 2
    /\ order' \in Orders(subreddits)
    /\ at_start' = buckets
    /\ im_pc' = "scanning"
    /\ scanned' = 0
    /\ roster' = <<>>
    /\ walk' = WalkStart
    /\ fetched' = FALSE
    /\ UNCHANGED <<buckets, subreddits, listings, skipped>>
    /\ UNCHANGED outvars
    /\ UNCHANGED <<mqvars, mmvars>>

(***************************************************************************)
(* InactivityManager.print_results and the writers (models/writers.py,     *)
(* models/google_sheets.py).                                               *)
(***************************************************************************)
\* InactivityManager.lists: the buckets print_results hands to the writer.
lists ==
    <<"all_subreddits", "inactive", "active_top_mod", "only_one_active",
      "no_active_mods", "inactive_top_mod", "inactive_top_2", "inactive_top_3",
      "inactive_top_5", "inactive_top_10", "active_inactive_above",
      "inactive_active_below">>

\* The buckets scan calls with a filter(...) object as mods; the others are
\* called with the list [].
LazyBuckets ==
    {"inactive_top_mod", "inactive_top_2", "inactive_top_3", "inactive_top_5",
     "inactive_top_10", "active_inactive_above", "top_active_mod",
     "only_one_active", "inactive_active_below"}

Writers == {"ConsoleWriter", "GoogleSheetsWriter"}

\* One traversal of the mods stored with entry k of bucket b, given the
\* entries whose filter object was traversed before: a filter object yields
\* its elements once, a list every time.
Traverse(b, k, used) ==
    IF b \in LazyBuckets /\ <<b, k>> \in used THEN <<>> ELSE buckets[b][k].mods

\* The entries of bucket b that a traversal of the mods of its first n
\* entries exhausts.
Exhausted(b, n) == IF b \in LazyBuckets THEN {<<b, k>> : k \in 1..n} ELSE {}

\* subreddit.position and subreddit.is_active are set when scan meets self in
\* the roster; a subreddit where self is absent has neither and the writers'
\* read of item.position raises AttributeError.
LacksPosition(s) ==
    \A k \in 1..Len(listings[s].entries) : listings[s].entries[k].name /= Me

\* The index of the first entry of bucket b on which the writer raises (0:
\* none).
FirstBad(b) ==
    LET bad == {k \in 1..Len(buckets[b]) : LacksPosition(buckets[b][k].sub)}
    IN IF bad = {} THEN 0 ELSE CHOOSE k \in bad : \A j \in bad : k <= j

\* ConsoleWriter.write on bucket b, up to its entry number n: the mods are
\* traversed once, as each entry is printed.
ConsoleSheet(b, used, n) ==
    [name |-> b,
     counted |-> <<>>,
     entries |-> [k \in 1..n |-> [sub |-> buckets[b][k].sub, mods |-> Traverse(b, k, used)]]]

\* GoogleSheets.generate_sheets on bucket b: the mods of every entry are
\* traversed to size the worksheet, len(list(other_mods)), and then again
\* to build the rows; the rows are appended after the loop (not at all
\* when it raised).
GoogleSheet(b, used, raised) ==
    [name |-> b,
     counted |-> [k \in 1..Len(buckets[b]) |-> Len(Traverse(b, k, used))],
     entries |-> IF raised THEN <<>>
                 ELSE [k \in 1..Len(buckets[b]) |->
                         [sub |-> buckets[b][k].sub,
                          mods |-> Traverse(b, k, used \cup Exhausted(b, Len(buckets[b])))]]]

\* writer(registry, me).write(): the sheets put out for the buckets of the
\* registry, in order, up to the bucket where the writer raises.
Write(writer, registry, used) ==
    LET failing == {i \in 1..Len(registry) : FirstBad(registry[i]) /= 0}
        raised == failing /= {}
        last == IF raised THEN CHOOSE i \in failing : \A j \in failing : i <= j
                ELSE Len(registry)
        Sheet(i) ==
            LET b == registry[i]
                stop == raised /\ i = last
            IN IF writer = "ConsoleWriter"
               THEN ConsoleSheet(b, used, IF stop THEN FirstBad(b) - 1 ELSE Len(buckets[b]))
               ELSE GoogleSheet(b, used, stop)
        Touched(i) ==
            LET b == registry[i]
            IN IF writer = "ConsoleWriter" /\ raised /\ i = last
               THEN Exhausted(b, FirstBad(b) - 1)
               ELSE Exhausted(b, Len(buckets[b]))
    IN [raised |-> raised,
        written |-> [writer |-> writer, sheets |-> [i \in 1..last |-> Sheet(i)]],
        consumed |-> used \cup UNION {Touched(i) : i \in 1..last}]

\* cli.inactive after scan(): scanner.print_results().
PrintResults ==
    /\ im_pc = "scanned"
    /\ \E writer \in Writers :
         LET out == Write(writer, lists, consumed)
         IN /\ written' = out.written
            /\ consumed' = out.consumed
            /\ im_pc' = IF out.raised THEN "print_raised" ELSE "printed"
    /\ UNCHANGED <<buckets, subreddits, order, scanned, roster, fetched, walk,
                   listings, skipped, im_run, at_start>>
    /\ UNCHANGED <<mqvars, mmvars>>

InactiveNext ==
    \/ IMNext
    \/ ScanAgain
    \/ PrintResults

(***************************************************************************)
(* checks.py: the modmail checks, and managers/modmail.py.                 *)
(***************************************************************************)
MailCheckFuncs == {"check_unanswered", "check_pending_response"}

MailChecks == [func : MailCheckFuncs, qualifier : Qualifiers]

\* Rule sets that hold each check function at most once.
MailRuleSets ==
    {cs \in SeqsUpTo(MailChecks, Cardinality(MailCheckFuncs)) :
        \A i, j \in 1..Len(cs) : cs[i].func = cs[j].func => i = j}

NoUpdate == 0           \* last_mod_update / last_user_update is None

\* An update time is None or an ISO string, named by the instant it denotes.
UpdateTimes == {NoUpdate, 1, 2}

\* The states the run scans (self.states).
States == <<"new", "archived">>

\* Every conversation belongs to one subreddit (conversation.owner).
Owners == {"r/a", "r/b"}

OwnerOf(id) == IF id % 2 = 1 THEN "r/a" ELSE "r/b"

\* The attributes of a ModmailConversation that scan and the checks read.
Conversations ==
    [id : 1..MaxConversations, last_mod_update : UpdateTimes,
     last_user_update : UpdateTimes]

NoConversation == [id |-> 0, last_mod_update |-> NoUpdate, last_user_update |-> NoUpdate]

\* What a call of a check does: it returns (result, message) or it raises.
Returns(result) == [raised |-> FALSE, result |-> result]

Raises == [raised |-> TRUE, result |-> FALSE]

\* datetime.fromisoformat: the instant of an ISO string; TypeError on None.
fromisoformat(v) == IF v = NoUpdate THEN [raised |-> TRUE, instant |-> 0]
                    ELSE [raised |-> FALSE, instant |-> v]

check_unanswered_by_user(ignore, conv) ==
    IF ignore THEN Returns(FALSE)
    ELSE Returns(conv.last_user_update = NoUpdate)

check_unanswered(ignore, conv) ==
    IF ignore THEN Returns(FALSE)
    ELSE Returns(conv.last_mod_update = NoUpdate)

check_pending_response(ignore, conv) ==
    IF ignore \/ conv.last_user_update = NoUpdate THEN Returns(FALSE)
    ELSE LET mod == fromisoformat(conv.last_mod_update)
             user == fromisoformat(conv.last_user_update)
         IN IF mod.raised \/ user.raised THEN Raises
            ELSE Returns(mod.instant < user.instant)

MailCheckCall(check, ign_unanswered, ign_pending, conv) ==
    CASE check.func = "check_unanswered" -> check_unanswered(ign_unanswered, conv)
      [] check.func = "check_pending_response" ->
            check_pending_response(ign_pending, conv)

\* `for check in self.checks: ... break ... else: add` from check number i
\* on.  acc: whether a check raised, whether the else branch added the
\* conversation, and the checks invoked.
RECURSIVE RunMailChecks(_, _, _, _, _, _)
RunMailChecks(cs, ign_u, ign_p, conv, i, acc) ==
    IF i > Len(cs) THEN [acc EXCEPT !.added = TRUE]
    ELSE LET r == MailCheckCall(cs[i], ign_u, ign_p, conv)
             acc1 == [acc EXCEPT !.calls = Append(@, i)]
         IN IF r.raised THEN [acc1 EXCEPT !.raised = TRUE]
            ELSE IF r.result THEN [acc1 EXCEPT !.matched = TRUE]
            ELSE RunMailChecks(cs, ign_u, ign_p, conv, i + 1, acc1)

MailLocals == [raised |-> FALSE, matched |-> FALSE, added |-> FALSE, calls |-> <<>>]

MMInit ==
    /\ mm_checks \in MailRuleSets
    /\ ignore_unanswered \in BOOLEAN
    /\ ignore_pending_response \in BOOLEAN
    /\ items_to_archive = {}
    /\ mm_pc = "scanning"
    /\ state_idx = 1
    /\ last_id = 0
    /\ conversation = NoConversation
    /\ added = FALSE
    /\ mm_calls = <<>>
    /\ aggregated = [k \in Owners \X (1..Len(States)) |-> 0]
    /\ mm_ret = <<>>
    /\ mm_exc = None
    /\ mm_listed = {}
    /\ mm_todo = {}
    /\ mm_actions = <<>>

MMIdle ==
    /\ mm_checks = <<>>
    /\ ignore_unanswered = FALSE
    /\ ignore_pending_response = FALSE
    /\ items_to_archive = {}
    /\ mm_pc = "idle"
    /\ state_idx = 0
    /\ last_id = 0
    /\ conversation = NoConversation
    /\ added = FALSE
    /\ mm_calls = <<>>
    /\ aggregated = [k \in Owners \X (1..Len(States)) |-> 0]
    /\ mm_ret = <<>>
    /\ mm_exc = None
    /\ mm_listed = {}
    /\ mm_todo = {}
    /\ mm_actions = <<>>

mmconfig == <<mm_checks, ignore_unanswered, ignore_pending_response>>

archvars == <<mm_todo, mm_actions>>

\* aggregated[conversation.owner.display_name][state] += 1, which follows
\* the for-else of the checks: it runs whether the conversation was added
\* or not.
CountListingIfAdded(agg, owner, state, was_added) ==
    IF was_added THEN [agg EXCEPT ![<<owner, state>>] = @ + 1] ELSE agg

CountListing(agg, owner, state, was_added) ==
    [agg EXCEPT ![<<owner, state>>] = @ + 1]

\* One iteration of `for conversation in self.listing(state=state)`: the
\* listing yields a conversation and the loop body runs on it.  A check
\* that raises ends scan: nothing in scan catches.
ScanConversation ==
    /\ mm_pc = "scanning"
    /\ conversation = NoConversation
    /\ \E conv \in Conversations :
         /\ conv.id > last_id
         /\ LET r == RunMailChecks(mm_checks, ignore_unanswered,
                                   ignore_pending_response, conv, 1, MailLocals)
                owner == OwnerOf(conv.id)
            IN /\ conversation' = conv
               /\ last_id' = conv.id
               /\ mm_calls' = r.calls
               /\ added' = r.added
               /\ items_to_archive' = IF r.added THEN items_to_archive \cup {conv.id}
                                      ELSE items_to_archive
               /\ mm_pc' = IF r.raised THEN "raised" ELSE "scanning"
               /\ mm_exc' = IF r.raised THEN "TypeError" ELSE mm_exc
               /\ aggregated' = IF r.raised THEN aggregated
                                ELSE CountListing(aggregated, owner, state_idx, r.added)
               /\ mm_listed' = mm_listed \cup {[state |-> state_idx, id |-> conv.id,
                                                 added |-> r.added]}
    /\ UNCHANGED <<state_idx, mm_ret>>
    /\ UNCHANGED mmconfig
    /\ UNCHANGED archvars
    /\ UNCHANGED <<mqvars, imvars>>

\* The end of the loop body: control is back at the inner for statement.
ConversationLoop ==
    /\ mm_pc = "scanning"
    /\ conversation /= NoConversation
    /\ conversation' = NoConversation
    /\ added' = FALSE
    /\ mm_calls' = <<>>
    /\ UNCHANGED <<items_to_archive, mm_pc, state_idx, last_id, aggregated,
                   mm_ret, mm_exc, mm_listed>>
    /\ UNCHANGED mmconfig
    /\ UNCHANGED archvars
    /\ UNCHANGED <<mqvars, imvars>>

\* The listing of the state is exhausted and another state follows.
NextState ==
    /\ mm_pc = "scanning"
    /\ conversation = NoConversation
    /\ state_idx < Len(States)
    /\ state_idx' = state_idx + 1
    /\ last_id' = 0
    /\ UNCHANGED <<items_to_archive, mm_pc, conversation, added, mm_calls,
                   aggregated, mm_ret, mm_exc, mm_listed>>
    /\ UNCHANGED mmconfig
    /\ UNCHANGED archvars
    /\ UNCHANGED <<mqvars, imvars>>

\* The listing of the last state is exhausted: scan logs and returns
\* len(self.items_to_archive).
MailScanReturn ==
    /\ mm_pc = "scanning"
    /\ conversation = NoConversation
    /\ state_idx = Len(States)
    /\ mm_ret' = <<Cardinality(items_to_archive)>>
    /\ mm_pc' = "returned"
    /\ UNCHANGED <<items_to_archive, state_idx, last_id, conversation, added,
                   mm_calls, aggregated, mm_exc, mm_listed>>
    /\ UNCHANGED mmconfig
    /\ UNCHANGED archvars
    /\ UNCHANGED <<mqvars, imvars>>

\* The listing raises, Forbidden or any other Exception, when scan asks it
\* for its next conversation: nothing in scan catches.
ConversationListingFails ==
    /\ mm_pc = "scanning"
    /\ conversation = NoConversation
    /\ mm_exc' \in {"Forbidden", "Exception"}
    /\ mm_pc' = "raised"
    /\ UNCHANGED <<items_to_archive, state_idx, last_id, conversation, added,
                   mm_calls, aggregated, mm_ret, mm_listed>>
    /\ UNCHANGED mmconfig
    /\ UNCHANGED archvars
    /\ UNCHANGED <<mqvars, imvars>>

MMNext ==
    \/ ScanConversation
    \/ ConversationLoop
    \/ NextState
    \/ MailScanReturn
    \/ ConversationListingFails

(***************************************************************************)
(* cli.modmail as a whole: the rule set the command builds, scan, the       *)
(* confirmation prompt and Modmail.archive_found.                           *)
(***************************************************************************)
\* [check_unanswered(ignore_unanswered), check_pending_response(ignore_pending_response)]
CliMailChecks ==
    <<[func |-> "check_unanswered", qualifier |-> "ALL"],
      [func |-> "check_pending_response", qualifier |-> "ALL"]>>

MMCommandInit ==
    /\ mm_checks = CliMailChecks
    /\ ignore_unanswered \in BOOLEAN
    /\ ignore_pending_response \in BOOLEAN
    /\ items_to_archive = {}
    /\ mm_pc = "scanning"
    /\ state_idx = 1
    /\ last_id = 0
    /\ conversation = NoConversation
    /\ added = FALSE
    /\ mm_calls = <<>>
    /\ aggregated = [k \in Owners \X (1..Len(States)) |-> 0]
    /\ mm_ret = <<>>
    /\ mm_exc = None
    /\ mm_listed = {}
    /\ mm_todo = {}
    /\ mm_actions = <<>>

\* `archive_count and click.confirm(..., abort=True) and not context.dry_run`:
\* where the command goes, given the user's answer to the prompt (asked
\* only when archive_count is not 0; "no" raises click.Abort).
AfterMailScanNoDryRun(archive_count, answer, dry) ==
    IF archive_count = 0 THEN "done"
    ELSE IF ~answer THEN "aborted"
    ELSE "archiving"

AfterMailScan(archive_count, answer, dry) ==
    IF archive_count = 0 THEN "done"
    ELSE IF ~answer THEN "aborted"
    ELSE IF dry THEN "done"
    ELSE "archiving"

scanstate == <<items_to_archive, state_idx, last_id, conversation, added,
               mm_calls, aggregated, mm_ret, mm_exc, mm_listed>>

MailCommandDispatch ==
    /\ mm_pc = "returned"
    /\ \E answer \in BOOLEAN : mm_pc' = AfterMailScan(mm_ret[1], answer, dry_run)
    /\ mm_todo' = IF mm_pc' = "archiving" THEN items_to_archive ELSE {}
    /\ UNCHANGED mm_actions
    /\ UNCHANGED scanstate
    /\ UNCHANGED mmconfig
    /\ UNCHANGED <<mqvars, imvars>>

\* One iteration of archive_found on a conversation: what it logs, reads
\* and calls, given the value of item.is_internal and whether archive()
\* succeeds.  The read of is_internal is recorded with its value as ok.
ArchiveInternalToo(id, internal, archive_ok) ==
    <<Call("log Archiving", id, TRUE), Call("is_internal", id, internal),
      Call("archive", id, archive_ok)>>
    \o (IF archive_ok THEN <<>> ELSE <<Call("log Error archiving", id, TRUE)>>)
    \o <<Call("log Archived", id, TRUE)>>

ArchiveCalls(id, internal, archive_ok) ==
    <<Call("log Archiving", id, TRUE), Call("is_internal", id, internal)>>
    \o (IF internal
        THEN <<Call("log Skipping internal conversation", id, TRUE)>>
        ELSE <<Call("archive", id, archive_ok)>>
             \o (IF archive_ok THEN <<>>
                 ELSE <<Call("log Error archiving", id, TRUE)>>)
             \o <<Call("log Archived", id, TRUE)>>)

\* `for item in self.items_to_archive` takes a conversation, in the order
\* the set gives.
ArchiveItem ==
    /\ mm_pc = "archiving"
    /\ \E id \in mm_todo, internal \in BOOLEAN, archive_ok \in BOOLEAN :
         /\ mm_actions' = mm_actions \o ArchiveCalls(id, internal, archive_ok)
         /\ mm_todo' = mm_todo \ {id}
    /\ UNCHANGED mm_pc
    /\ UNCHANGED scanstate
    /\ UNCHANGED mmconfig
    /\ UNCHANGED <<mqvars, imvars>>

ArchiveReturn ==
    /\ mm_pc = "archiving"
    /\ mm_todo = {}
    /\ mm_pc' = "done"
    /\ UNCHANGED archvars
    /\ UNCHANGED scanstate
    /\ UNCHANGED mmconfig
    /\ UNCHANGED <<mqvars, imvars>>

MMCommandNext ==
    \/ MMNext
    \/ MailCommandDispatch
    \/ ArchiveItem
    \/ ArchiveReturn

\* Modmail.scan over the states of the run.
ModmailInit == MMInit /\ MQIdle /\ IMIdle

SpecModmail == ModmailInit /\ [][MMNext]_vars

\* The modmail command, with or without --dry-run.
ModmailCommandInit == MMCommandInit /\ dry_run \in BOOLEAN /\ NoModqueue /\ IMIdle

SpecModmailCommand == ModmailCommandInit /\ [][MMCommandNext]_vars

\* The inactive command on one subreddit, with moderators listings of every
\* length up to MaxRoster.
LadderInit == IMInit(1) /\ MQIdle /\ MMIdle

SpecLadder == LadderInit /\ [][IMNext]_vars

\* The ladder classifier over context.subreddits, run once or twice in the
\* process.
InactiveInit == IMInit(Len(ContextSubreddits)) /\ MQIdle /\ MMIdle

SpecInactive == InactiveInit /\ [][InactiveNext]_vars

\* The modqueue command on one subreddit.
ModqueueInit == MQInit /\ IMIdle /\ MMIdle

SpecModqueue == ModqueueInit /\ [][MQNext]_vars

\* The modqueue command over context.subreddits.
ModqueueCommandInit == MQCommandInit /\ IMIdle /\ MMIdle

SpecModqueueCommand == ModqueueCommandInit /\ [][MQCommandNext]_vars

\* One invocation of the program: main sets context.dry_run and runs the
\* modqueue command or the modmail command.
CliInit == ModqueueCommandInit \/ ModmailCommandInit

CliNext == MQCommandNext \/ MMCommandNext

SpecCli == CliInit /\ [][CliNext]_vars

(***************************************************************************)
(* Properties of Modqueue.scan.                                            *)
(***************************************************************************)
InSeq(x, seq) == \E k \in 1..Len(seq) : seq[k] = x

InBody == mq_pc = "scanning" /\ item /= NoItem

Bypassed == InSeq(item.id, items_to_reapprove)

Removed == InSeq(item.id, items_to_remove)

Matches(i) == CheckCall(checks[i], item.attrs)

AnyMatches == {i \in 1..Len(checks) : checks[i].qualifier = "ANY" /\ Matches(i)}

AllChecks == {i \in 1..Len(checks) : checks[i].qualifier = "ALL"}

\* C1 (as claimed): whatever the rule set, the empty one included, an item
\* with a truthy approved_by scanned with reapproval enabled is in the
\* reapprove bucket, is not in the remove bucket, and no check was invoked
\* on it.
C1_BypassForEveryRuleSet ==
    (InBody /\ reapprove /\ Truthy(item.attrs.approved_by))
        => (Bypassed /\ ~Removed /\ calls = <<>>)

\* C2: for an item the bypass did not take and on which no ANY check
\* matches, the item is in the remove bucket exactly when every ALL check
\* matches it (so: always, when the rule set is empty).
C2_AllChecksAreConjoined ==
    (InBody /\ ~Bypassed /\ AnyMatches = {})
        => (Removed <=> \A i \in AllChecks : Matches(i))

\* An item that the first of two ALL checks rejects and the second accepts.
C2_Witness ==
    /\ InBody /\ ~Bypassed /\ AnyMatches = {}
    /\ Len(checks) = 2 /\ AllChecks = {1, 2}
    /\ ~Matches(1) /\ Matches(2)
    /\ ~Removed

\* C3: when some ANY check matches an item the bypass did not take, the
\* item is in the remove bucket whatever the other checks said, and the
\* checks invoked on it are exactly those up to the first matching ANY
\* check, in order.
C3_AnyMatchOverridesAndStops ==
    (InBody /\ ~Bypassed /\ AnyMatches /= {})
        => LET first == CHOOSE i \in AnyMatches : \A j \in AnyMatches : i <= j
           IN /\ Removed
              /\ remove = TRUE
              /\ calls = [k \in 1..first |-> k]

\* An ALL check failed on the item before an ANY check matched it.
C3_Witness ==
    /\ InBody /\ ~Bypassed
    /\ Len(checks) = 2
    /\ checks[1].qualifier = "ALL" /\ ~Matches(1)
    /\ checks[2].qualifier = "ANY" /\ Matches(2)
    /\ Removed

(***************************************************************************)
(* Properties of InactivityManager.scan.                                   *)
(***************************************************************************)
\* The subreddit last taken had its listing read to the end and was put in
\* its buckets; it is `subreddit`.
Classified == fetched /\ im_pc \in {"scanning", "scanned"}

PlacesOfSelf == {k \in 1..Len(roster) : roster[k].name = Me}

SelfFound == PlacesOfSelf /= {}

\* The rank of self in the roster (0 when self is not in it).
Rank == IF SelfFound THEN CHOOSE k \in PlacesOfSelf : TRUE ELSE 0

SelfActive == SelfFound /\ roster[Rank].is_active

ModAt(k) == [name |-> roster[k].name, is_active |-> roster[k].is_active, position |-> k]

\* The entries ranked above self and those ranked below self, in rank order.
Above == [k \in 1..(Rank - 1) |-> ModAt(k)]

Below == [k \in 1..(Len(roster) - Rank) |-> ModAt(Rank + k)]

EntriesIn(b) == {k \in 1..Len(buckets[b]) : buckets[b][k].sub = subreddit}

In(b) == EntriesIn(b) /= {}

Once(b) == Cardinality(EntriesIn(b)) = 1

OthersIn(b) == buckets[b][CHOOSE k \in EntriesIn(b) : TRUE].mods

Fired == {b \in BucketNames : In(b)}

LadderBuckets ==
    {"active_top_mod", "inactive_top_mod", "inactive_top_2", "inactive_top_3",
     "inactive_top_5", "inactive_top_10"}

\* The (rank, self_active) table of the ladder.
LadderOf(rank, active) ==
    IF rank = 1 /\ active THEN {"active_top_mod"}
    ELSE IF active THEN {}
    ELSE IF rank = 1 THEN {"inactive_top_mod"}
    ELSE IF rank = 2 THEN {"inactive_top_2"}
    ELSE IF rank = 3 THEN {"inactive_top_3"}
    ELSE IF rank \in 4..5 THEN {"inactive_top_5"}
    ELSE IF rank \in 6..10 THEN {"inactive_top_10"}
    ELSE {}

\* C4 (as claimed): the subreddit is in only_one_active exactly when self is
\* in the roster and active and every other entry, above or below, is
\* inactive; the roster [Self(active)] alone fires all_subreddits,
\* active_top_mod and only_one_active, and not no_active_mods.
C4_OnlyOneActive ==
    Classified =>
        /\ In("only_one_active")
             <=> /\ SelfActive
                 /\ \A k \in 1..Len(roster) : k /= Rank => ~roster[k].is_active
        /\ roster = <<[name |-> Me, is_active |-> TRUE]>>
             => /\ {"all_subreddits", "active_top_mod", "only_one_active"} \subseteq Fired
                /\ ~In("no_active_mods")

\* C7: a classified subreddit is in exactly the ladder buckets the
\* (rank, self_active) table names, which is at most one, and it is in that
\* bucket once; self active at rank >= 2, self inactive at rank > 10 and an
\* absent self give no ladder bucket.
C7_LadderTable ==
    Classified =>
        /\ Fired \cap LadderBuckets = LadderOf(Rank, SelfActive)
        /\ Cardinality(Fired \cap LadderBuckets) <= 1
        /\ \A b \in Fired \cap LadderBuckets : Once(b)

\* Self is inactive at rank 11: no ladder bucket holds the subreddit.
C7_Witness ==
    /\ Classified
    /\ Rank = 11 /\ ~SelfActive
    /\ Fired \cap LadderBuckets = {}

\* C8: with self in the roster and inactive at rank r, the subreddit is in
\* all_subreddits, in inactive, in the ladder bucket of r (r <= 10) with the
\* inactive entries above self, in inactive_active_below exactly when an
\* entry below self is active, with the active entries below self, in
\* no_active_mods exactly when every entry is inactive, and in nothing else.
C8_InactiveSelfBuckets ==
    (Classified /\ SelfFound /\ ~SelfActive) =>
        /\ Fired = {"all_subreddits", "inactive"}
                   \cup LadderOf(Rank, FALSE)
                   \cup (IF contain_active(Below) THEN {"inactive_active_below"} ELSE {})
                   \cup (IF contain_all_inactive(roster) THEN {"no_active_mods"} ELSE {})
        /\ \A b \in Fired : Once(b)
        /\ \A b \in LadderOf(Rank, FALSE) : OthersIn(b) = SelectSeq(Above, IsInactive)
        /\ In("inactive_active_below")
             => OthersIn("inactive_active_below") = SelectSeq(Below, IsActive)

\* The roster [A(active), B(inactive), Self(inactive), D(active)].
C8_Witness ==
    /\ Classified
    /\ roster = <<[name |-> 1, is_active |-> TRUE], [name |-> 2, is_active |-> FALSE],
                  [name |-> Me, is_active |-> FALSE], [name |-> 4, is_active |-> TRUE]>>
    /\ Fired = {"all_subreddits", "inactive_top_3", "inactive", "inactive_active_below"}
    /\ OthersIn("inactive_top_3") = <<[name |-> 2, is_active |-> FALSE, position |-> 2]>>
    /\ OthersIn("inactive_active_below") = <<[name |-> 4, is_active |-> TRUE, position |-> 4]>>

(***************************************************************************)
(* Properties of Modmail.scan.                                             *)
(***************************************************************************)
\* scan has run its loop body on `conversation` (to the end, or up to the
\* check that raised).
InMailBody == conversation /= NoConversation

HasCheck(func) == \E i \in 1..Len(mm_checks) : mm_checks[i].func = func

MailResult(i) ==
    MailCheckCall(mm_checks[i], ignore_unanswered, ignore_pending_response, conversation)

\* Check number i returns True on the conversation.
MailMatches(i) == ~MailResult(i).raised /\ MailResult(i).result

\* C5 (as claimed): with ignore_unanswered false, a conversation that has no
\* last_user_update is matched by check_unanswered and scan does not add it
\* to items_to_archive, whatever its last_mod_update.
C5_NoUserUpdateIsUnanswered ==
    (InMailBody /\ HasCheck("check_unanswered") /\ ~ignore_unanswered
        /\ conversation.last_user_update = NoUpdate)
        => /\ check_unanswered(ignore_unanswered, conversation).result
           /\ ~added

\* C5 (amended): with ignore_unanswered false, a conversation that has no
\* last_mod_update is matched by check_unanswered and scan, running on it,
\* does not add it to items_to_archive, whatever its last_user_update.
C5_NoModUpdateIsUnanswered ==
    (InMailBody /\ HasCheck("check_unanswered") /\ ~ignore_unanswered
        /\ conversation.last_mod_update = NoUpdate)
        => /\ check_unanswered(ignore_unanswered, conversation).result
           /\ ~added

\* A conversation a user wrote in and no moderator answered: check_unanswered
\* ran on it and stopped the loop.
C5_Witness ==
    /\ InMailBody /\ mm_pc = "scanning"
    /\ ~ignore_unanswered
    /\ conversation.last_mod_update = NoUpdate
    /\ conversation.last_user_update /= NoUpdate
    /\ Len(mm_calls) >= 1
    /\ mm_checks[mm_calls[Len(mm_calls)]].func = "check_unanswered"
    /\ ~added

\* C6 (as claimed): scan adds the conversation exactly when no check of the
\* rule set returns True on it, whatever the qualifiers; the checks invoked
\* are those up to the first one that returns True, in order; with no
\* check at all the conversation is added.
C6_ArchivedIffNoCheckMatches ==
    InMailBody =>
        LET matching == {i \in 1..Len(mm_checks) : MailMatches(i)}
            last == IF matching = {} THEN Len(mm_checks)
                    ELSE CHOOSE i \in matching : \A j \in matching : i <= j
        IN /\ added <=> matching = {}
           /\ added => conversation.id \in items_to_archive
           /\ mm_calls = [k \in 1..last |-> k]

(***************************************************************************)
(* Properties of Modqueue.remove_found and Modqueue.reapprove_found.       *)
(***************************************************************************)
RemoveFoundReturned == mq_pc \in {"reapproving", "reapprove_raised", "done"}

Issued(op, id) == \E k \in 1..Len(actions) : actions[k].op = op /\ actions[k].id = id

\* The positions of the remove bucket after the one holding id.
LaterInBucket(bucket, id) ==
    {q \in 1..Len(bucket) : \E p \in 1..(q - 1) : bucket[p] = id}

\* C9 (as claimed): remove() comes right before lock() on the same item and
\* lock() is never issued without it; and once lock() has failed on an item,
\* nothing more is issued on that item, remove_found does not raise, and
\* when it has returned remove() and lock() were issued on every later item
\* of the bucket.
C9_LockFailureIsContained ==
    /\ \A k \in 1..Len(actions) :
         actions[k].op = "lock"
            => /\ k > 1
               /\ actions[k - 1] = Call("remove", actions[k].id, TRUE)
    /\ \A k \in 1..Len(actions) :
         (actions[k].op = "lock" /\ ~actions[k].ok)
            => /\ \A j \in (k + 1)..Len(actions) : actions[j].id /= actions[k].id
               /\ mq_pc /= "remove_raised"
               /\ RemoveFoundReturned
                    => \A q \in LaterInBucket(items_to_remove, actions[k].id) :
                          /\ Issued("remove", items_to_remove[q])
                          /\ Issued("lock", items_to_remove[q])

\* C10 (as claimed): a failed remove() or approve() ends the processing of
\* that item only: neither remove_found nor reapprove_found raises, and the
\* action is still issued on every later item of the bucket.
C10_ActionFailureIsContained ==
    \A k \in 1..Len(actions) :
        (actions[k].op \in {"remove", "approve"} /\ ~actions[k].ok)
            => /\ mq_pc \notin {"remove_raised", "reapprove_raised"}
               /\ (actions[k].op = "remove" /\ RemoveFoundReturned)
                    => \A q \in LaterInBucket(items_to_remove, actions[k].id) :
                          Issued("remove", items_to_remove[q])
               /\ (actions[k].op = "approve" /\ mq_pc = "done")
                    => \A q \in LaterInBucket(items_to_reapprove, actions[k].id) :
                          Issued("approve", items_to_reapprove[q])

(***************************************************************************)
(* Properties of the modqueue command and of scan's failure handling.      *)
(***************************************************************************)
\* scan caught an exception the listing raised.
ListingFailed == scan_exc \in {"Forbidden", "Exception"}

\* C11: when the listing raises, Forbidden or anything else, at any point of
\* its iteration, scan does not raise and returns (0, 0); the command issues
\* no remove, lock or approve for that subreddit, and then takes the next
\* subreddit if there is one.
C11_ListingFailureSkipsSubreddit ==
    ListingFailed =>
        /\ scan_ret = <<0, 0>>
        /\ mq_pc \in {"scanned", "done"}
        /\ actions = <<>>
        /\ (mq_pc = "done" /\ remaining > 0) => ENABLED NextSubreddit

\* The listing raised after it had yielded an item that went to the remove
\* bucket; the command is through with the subreddit and another one follows.
C11_Witness ==
    /\ ListingFailed
    /\ ~dry_run
    /\ items_to_remove /= <<>>
    /\ mq_pc = "done"
    /\ remaining > 0
    /\ actions = <<>>

\* C12 (as claimed): whenever scan has returned a pair (r, a), on normal
\* completion or after a listing failure part-way through the listing, r is
\* the number of items in the remove bucket and a the number of items in the
\* reapprove bucket.
C12_ReturnedCountsAreBucketSizes ==
    mq_pc = "scanned"
        => scan_ret = <<Len(items_to_remove), Len(items_to_reapprove)>>

\* The last check invoked on `item` raised on reading a missing attribute.
CheckRaised ==
    /\ scan_exc = "AttributeError"
    /\ calls /= <<>>
    /\ CheckRaises(checks[calls[Len(calls)]], item.attrs)

\* C13 (as claimed): when evaluating a check on a malformed item raises, the
\* error leaves scan and ends it: scan returns no counts.
C13_MalformedItemIsFatal == CheckRaised => scan_ret = <<>>

(***************************************************************************)
(* Properties of the modmail command and of Modmail.scan's failures.       *)
(***************************************************************************)
\* The conversation listing raised while Modmail.scan iterated it.
MailListingFailed == mm_exc \in {"Forbidden", "Exception"}

\* C14 (as claimed): when the conversation listing raises Forbidden or any
\* other failure, for any state, Modmail.scan does not raise: it returns a
\* count.
C14_MailListingFailureIsHandled ==
    MailListingFailed => (mm_pc /= "raised" /\ mm_ret /= <<>>)

(***************************************************************************)
(* Properties of InactivityManager.scan over several subreddits.           *)
(***************************************************************************)
\* The locals of scan after its roster loop has read all of entries.
RECURSIVE WalkOf(_)
WalkOf(entries) ==
    IF entries = <<>> THEN WalkStart
    ELSE WalkStep(WalkOf(SubSeq(entries, 1, Len(entries) - 1)),
                  entries[Len(entries)], Len(entries))

\* What scan puts in each bucket for subreddit s when it is the only
\* subreddit scanned and its listing is read to the end.
AloneOf(s) ==
    AppendAll([b \in BucketNames |-> <<>>], s, Classify(WalkOf(listings[s].entries)))

\* The entries the running call of scan has appended to bucket b.
Appended(b) == SubSeq(buckets[b], Len(at_start[b]) + 1, Len(buckets[b]))

EntriesOf(s, entries) == LET OfS(e) == e.sub = s IN SelectSeq(entries, OfS)

\* The subreddits the running call of scan is through with.
Finished ==
    {order[k] : k \in (IF im_pc = "walking" THEN 1..(scanned - 1) ELSE 1..scanned)}

SkippedNow == {s \in Finished : <<im_run, s>> \in skipped}

\* C15: a subreddit whose moderators listing raised, at its first entry or
\* after some entries were read, is appended to no bucket by scan, scan does
\* not raise (it is running or it has returned to the command), and every
\* other subreddit gets exactly the bucket entries it gets when no listing
\* fails.
C15_RosterFailureSkipsSubreddit ==
    /\ im_pc \in {"scanning", "walking", "scanned", "printed", "print_raised"}
    /\ \A s \in Finished :
          LET alone == AloneOf(s)
          IN \A b \in BucketNames :
                EntriesOf(s, Appended(b)) = IF s \in SkippedNow THEN <<>> ELSE alone[b]

\* The listing of the first subreddit raised after it had yielded self,
\* active; the second subreddit, where self is inactive below an active
\* moderator, was classified.
C15_Witness ==
    /\ im_run = 1 /\ im_pc = "scanned"
    /\ SkippedNow = {1}
    /\ listings[1].entries = <<[name |-> Me, is_active |-> TRUE]>>
    /\ listings[2].entries = <<[name |-> 1, is_active |-> TRUE],
                               [name |-> Me, is_active |-> FALSE]>>
    /\ {b \in BucketNames : buckets[b] /= <<>>}
         = {"all_subreddits", "inactive", "inactive_top_2"}

\* C16 (as claimed): a second call of scan over the same rosters (no
\* listing failed in either call) leaves every bucket as the first call
\* left it: no bucket gains an entry.
C16_SecondScanAddsNothing ==
    (im_run = 2 /\ skipped = {}) => \A b \in BucketNames : buckets[b] = at_start[b]

\* No moderator has written in the conversation.
Unanswered(conv) == conv.last_mod_update = NoUpdate

\* The last user update is later than the last moderator update.
PendingResponse(conv) ==
    /\ conv.last_user_update /= NoUpdate
    /\ conv.last_mod_update /= NoUpdate
    /\ conv.last_mod_update < conv.last_user_update

\* C17 (as claimed): in the modmail command, with --ignore-unanswered no
\* unanswered conversation is selected for archival, and with
\* --ignore-pending-response no conversation pending a moderator response is.
C17_IgnoreFlagsKeepConversations ==
    (mm_checks = CliMailChecks /\ InMailBody /\ added) =>
        /\ ignore_unanswered => ~Unanswered(conversation)
        /\ ignore_pending_response => ~PendingResponse(conversation)

\* C18: with --dry-run no remote action is issued: the modqueue command
\* calls no remove(), lock() or approve(), and the modmail command calls
\* archive() on no conversation, whatever the scan found and whatever the
\* user answers to the prompt.
C18_DryRunIssuesNoAction ==
    dry_run =>
        /\ actions = <<>>
        /\ \A k \in 1..Len(mm_actions) : mm_actions[k].op /= "archive"

\* --dry-run: the scan selected conversations, the user answered yes to the
\* prompt, and the command has ended.
C18_Witness ==
    /\ dry_run
    /\ mm_pc = "done"
    /\ mm_ret /= <<>> /\ mm_ret[1] > 0
    /\ mm_actions = <<>>

\* archive_found read is_internal of the conversation and found it True.
FoundInternal(id) ==
    \E k \in 1..Len(mm_actions) : mm_actions[k] = Call("is_internal", id, TRUE)

ArchiveCallsOn(id) ==
    {k \in 1..Len(mm_actions) : mm_actions[k].op = "archive" /\ mm_actions[k].id = id}

\* archive_found was called and has returned.
ArchiveFoundReturned == mm_pc = "done" /\ mm_actions /= <<>>

\* C19: archive_found issues archive() on no internal conversation, though
\* the internal conversations the scan selected are in the count scan
\* returned; on every other conversation of the archive set it issues
\* archive() exactly once per call, also when archive() failed on another.
C19_InternalConversationsAreSkipped ==
    /\ \A id \in 1..MaxConversations :
          /\ FoundInternal(id)
                => /\ ArchiveCallsOn(id) = {}
                   /\ id \in items_to_archive
                   /\ mm_ret = <<Cardinality(items_to_archive)>>
          /\ Cardinality(ArchiveCallsOn(id)) <= 1
    /\ ArchiveFoundReturned
          => \A id \in items_to_archive :
                ~FoundInternal(id) => Cardinality(ArchiveCallsOn(id)) = 1

\* The scan selected two conversations and returned 2; archive_found
\* skipped the internal one and issued archive(), which failed, on the other.
C19_Witness ==
    /\ ArchiveFoundReturned
    /\ mm_ret = <<2>>
    /\ \E id \in items_to_archive, other \in items_to_archive :
          /\ FoundInternal(id) /\ ArchiveCallsOn(id) = {}
          /\ ~FoundInternal(other)
          /\ \E k \in ArchiveCallsOn(other) : ~mm_actions[k].ok

(***************************************************************************)
(* Properties of the rule set of the modqueue command.                     *)
(***************************************************************************)
SpamFlagged(attrs) ==
    \/ attrs.removed_by_category = "reddit"
    \/ attrs.banned_by = "True" /\ attrs.ban_note = "spam"

\* C20: under [check_score ALL, check_age ALL,
\* check_removed_by_automated_spam ANY], an item the bypass did not take is
\* in the remove bucket exactly when (score < min_score and age >= min_age)
\* or it is spam-flagged; so an item whose score equals min_score, or whose
\* score is low but whose age is below min_age, is removed only if it is
\* spam-flagged.
C20_CommandRuleSet ==
    (checks = CliChecks /\ InBody /\ ~Bypassed) =>
        LET a == item.attrs
        IN /\ Removed <=> \/ a.score < MinScore /\ a.age >= MinAge
                          \/ SpamFlagged(a)
           /\ (a.score = MinScore \/ (a.score < MinScore /\ a.age < MinAge))
                => (Removed <=> SpamFlagged(a))

\* An item at the score threshold, old enough and not spam-flagged: all
\* three checks ran and it is not removed.
C20_Witness ==
    /\ checks = CliChecks /\ InBody /\ ~Bypassed
    /\ item.attrs.score = MinScore
    /\ item.attrs.age >= MinAge
    /\ ~SpamFlagged(item.attrs)
    /\ calls = <<1, 2, 3>>
    /\ ~Removed

(***************************************************************************)
(* Properties of the modmail checks as functions of one conversation.      *)
(***************************************************************************)
\* C21 (as claimed): a check invoked on a conversation whose last_mod_update
\* and last_user_update are each None or a valid timestamp returns its
\* (bool, message) pair, whatever the ignore flags: no check raises and scan
\* is ended by no exception of a check.
C21_ChecksNeverRaise ==
    /\ mm_exc /= "TypeError"
    /\ InMailBody => \A k \in 1..Len(mm_calls) : ~MailResult(mm_calls[k]).raised

(***************************************************************************)
(* Properties of the ladder classifier on one roster.                      *)
(***************************************************************************)
\* The buckets whose rule reads the position of self in the roster.
SelfRelativeBuckets ==
    {"active_inactive_above", "top_active_mod", "only_one_active",
     "inactive_active_below"}

\* C22: when self is not in the roster of a subreddit, whatever the roster
\* holds, the subreddit is appended to no ladder bucket and to none of
\* active_inactive_above, top_active_mod, only_one_active and
\* inactive_active_below: it is in all_subreddits, in inactive, and in
\* no_active_mods exactly when every entry is inactive.
C22_AbsentSelfIsInNoRankBucket ==
    (Classified /\ ~SelfFound) =>
        /\ Fired \cap (LadderBuckets \cup SelfRelativeBuckets) = {}
        /\ Fired = {"all_subreddits", "inactive"}
                   \cup (IF contain_all_inactive(roster) THEN {"no_active_mods"} ELSE {})
        /\ walk.my_position = NoPosition

\* A roster without self that holds an inactive moderator above an active
\* one: the subreddit was classified.
C22_Witness ==
    /\ Classified /\ ~SelfFound
    /\ Len(roster) = 2
    /\ ~roster[1].is_active /\ roster[2].is_active
    /\ Fired = {"all_subreddits", "inactive"}

\* The inactive entries ranked above self, in rank order.
InactiveAbove == LET NotActive(m) == ~m.is_active IN SelectSeq(Above, NotActive)

\* C23: with self in the roster and active, the subreddit is in
\* active_inactive_above exactly when some entry above self is inactive and
\* in top_active_mod exactly when every entry above self is inactive (so
\* always, at rank 1); each holds it once, with the inactive entries above
\* self; hence when top_active_mod holds it and self is not at rank 1,
\* active_inactive_above holds it too, with the same others.
C23_ActiveSelfAboveBuckets ==
    (Classified /\ SelfActive) =>
        /\ In("active_inactive_above") <=> \E k \in 1..(Rank - 1) : ~roster[k].is_active
        /\ In("top_active_mod") <=> \A k \in 1..(Rank - 1) : ~roster[k].is_active
        /\ \A b \in {"active_inactive_above", "top_active_mod"} :
              In(b) => (Once(b) /\ OthersIn(b) = InactiveAbove)
        /\ (In("top_active_mod") /\ Rank > 1)
              => /\ In("active_inactive_above")
                 /\ OthersIn("active_inactive_above") = OthersIn("top_active_mod")

\* Self is active at rank 3 below two inactive moderators: both buckets hold
\* the subreddit with those two.
C23_Witness ==
    /\ Classified /\ SelfActive
    /\ Rank = 3
    /\ ~roster[1].is_active /\ ~roster[2].is_active
    /\ In("active_inactive_above") /\ In("top_active_mod")
    /\ Len(OthersIn("top_active_mod")) = 2
    /\ OthersIn("active_inactive_above") = OthersIn("top_active_mod")

(***************************************************************************)
(* Properties of the two buckets of Modqueue.scan.                         *)
(***************************************************************************)
NoDuplicates(seq) == \A p, q \in 1..Len(seq) : seq[p] = seq[q] => p = q

\* C24: at every point of a scan over distinct items and after it, whether
\* it ended normally or in an except clause, no item is in both the remove
\* bucket and the reapprove bucket, no item is twice in a bucket, the
\* buckets hold scanned items only, and an item whose local `remove` ended
\* False without the bypass taking it is in neither bucket.
C24_BucketsAreDisjoint ==
    /\ \A p \in 1..Len(items_to_remove) : ~InSeq(items_to_remove[p], items_to_reapprove)
    /\ NoDuplicates(items_to_remove)
    /\ NoDuplicates(items_to_reapprove)
    /\ \A p \in 1..Len(items_to_remove) : items_to_remove[p] \in 1..pulled
    /\ \A p \in 1..Len(items_to_reapprove) : items_to_reapprove[p] \in 1..pulled
    /\ (InBody /\ ~remove /\ ~Bypassed) => ~Removed

\* The scan returned after two items: the first went to the remove bucket,
\* the bypass took the second.
C24_Witness ==
    /\ mq_pc = "scanned"
    /\ checks /= <<>>
    /\ pulled = 2
    /\ items_to_remove = <<1>>
    /\ items_to_reapprove = <<2>>

(***************************************************************************)
(* Properties of the archive set and of the aggregate of Modmail.scan.     *)
(***************************************************************************)
\* The conversations some listing yielded and scan selected.
SelectedIds == {l.id : l \in {m \in mm_listed : m.added}}

\* The listing occurrences of the conversations of an owner under a state.
Occurrences(owner, state) ==
    {l \in mm_listed : l.state = state /\ OwnerOf(l.id) = owner}

\* C25: the archive set holds each selected conversation once, however many
\* of the scanned states listed it, and scan returns the number of distinct
\* conversations selected; as long as no check raised, the aggregate of an
\* owner and a state counts one for every conversation the listing of that
\* state yielded for that owner, selected or not.
C25_ArchiveSetIsDeduplicated ==
    /\ items_to_archive = SelectedIds
    /\ mm_ret /= <<>> => mm_ret = <<Cardinality(SelectedIds)>>
    /\ mm_exc /= "TypeError"
          => \A owner \in Owners, state \in 1..Len(States) :
                aggregated[<<owner, state>>] = Cardinality(Occurrences(owner, state))

\* Conversation 1 was listed and selected under both states, conversation 2
\* was listed under the first state and not selected: scan returned 1 and
\* the aggregate counted three occurrences.
C25_Witness ==
    /\ mm_pc = "returned"
    /\ mm_ret = <<1>>
    /\ items_to_archive = {1}
    /\ mm_listed = {[state |-> 1, id |-> 1, added |-> TRUE],
                    [state |-> 2, id |-> 1, added |-> TRUE],
                    [state |-> 1, id |-> 2, added |-> FALSE]}
    /\ aggregated[<<OwnerOf(1), 1>>] = 1 /\ aggregated[<<OwnerOf(1), 2>>] = 1
    /\ aggregated[<<OwnerOf(2), 1>>] = 1 /\ aggregated[<<OwnerOf(2), 2>>] = 0

(***************************************************************************)
(* Properties of the reason scan logs for a removal.                       *)
(***************************************************************************)
\* C26 (as claimed): when an ANY check matches an item the bypass did not
\* take, the reason logged with the removal, " | ".join(messages), is the
\* message of that ANY check alone: no message of a check that matched
\* earlier in the rule set is part of it.
C26_AnyReasonOnly ==
    (InBody /\ ~Bypassed /\ AnyMatches /= {} /\ scan_exc = None)
        => LET first == CHOOSE i \in AnyMatches : \A j \in AnyMatches : i <= j
           IN messages = <<checks[first].func>>

(***************************************************************************)
(* Properties of InactivityManager.scan that relate processing orders.     *)
(***************************************************************************)
SetOf(seq) == {seq[k] : k \in 1..Len(seq)}

\* The running call of scan read every listing it took to its end.
NothingSkipped == \A s \in 1..subreddits : <<im_run, s>> \notin skipped

\* C27: whatever the order in which scan takes the subreddits, a bucket gets
\* at most one entry per subreddit, and after a scan in which every listing
\* was read the entries a bucket got are, as a set, those the subreddits get
\* one by one from their rosters; so a second scan of the same rosters, in
\* the same or in another order, gives each bucket the same set of
\* (subreddit, others) entries as the first.
C27_OrderIndependence ==
    /\ \A b \in BucketNames : \A p, q \in 1..Len(Appended(b)) :
          Appended(b)[p].sub = Appended(b)[q].sub => p = q
    /\ (im_pc = "scanned" /\ NothingSkipped)
          => LET alone == [s \in 1..subreddits |-> AloneOf(s)]
             IN \A b \in BucketNames :
                   SetOf(Appended(b)) = UNION {SetOf(alone[s][b]) : s \in 1..subreddits}
    /\ (im_pc = "scanned" /\ im_run = 2 /\ skipped = {})
          => \A b \in BucketNames : SetOf(Appended(b)) = SetOf(at_start[b])

\* Two scans of the same two rosters have ended, the first took r/a before
\* r/b and the second r/b before r/a; self is inactive below an inactive
\* moderator in r/a and alone, active, in r/b.
C27_Witness ==
    /\ im_pc = "scanned" /\ im_run = 2 /\ skipped = {}
    /\ order = <<2, 1>>
    /\ at_start["all_subreddits"][1].sub = 1
    /\ Appended("all_subreddits")[1].sub = 2
    /\ listings[1].entries = <<[name |-> 1, is_active |-> FALSE],
                               [name |-> Me, is_active |-> FALSE]>>
    /\ listings[2].entries = <<[name |-> Me, is_active |-> TRUE]>>
    /\ Appended("inactive_top_2")
         = <<[sub |-> 1, mods |-> <<[name |-> 1, is_active |-> FALSE, position |-> 1]>>]>>
    /\ Appended("active_top_mod") = <<[sub |-> 2, mods |-> <<>>]>>

(***************************************************************************)
(* Properties of print_results and of the writers.                         *)
(***************************************************************************)
\* The writer has put out a sheet for bucket b that holds all its entries.
Rendered(b) ==
    \E i \in 1..Len(written.sheets) :
        /\ written.sheets[i].name = b
        /\ Len(written.sheets[i].entries) = Len(buckets[b])

\* C28 (as claimed): every bucket scan has appended to is in the registry
\* `lists`, and when print_results has returned the writer has put out every
\* such bucket with all its entries.
C28_EveryBucketIsRegistered ==
    \A b \in BucketNames :
        buckets[b] /= <<>>
            => /\ InSeq(b, lists)
               /\ im_pc = "printed" => Rendered(b)

\* C29 (as claimed): traversing the mods stored with a bucket entry leaves
\* them as they were, and the sheet GoogleSheets.generate_sheets builds for a
\* bucket holds, for every entry, as many rows of mods as it counted for it.
C29_TraversalIsRepeatable ==
    /\ \A b \in BucketNames : \A k \in 1..Len(buckets[b]) :
          Traverse(b, k, consumed) = buckets[b][k].mods
    /\ (im_pc = "printed" /\ written.writer = "GoogleSheetsWriter")
          => \A i \in 1..Len(written.sheets) :
                LET sheet == written.sheets[i]
                IN \A k \in 1..Len(sheet.entries) :
                      Len(sheet.entries[k].mods) = sheet.counted[k]

(***************************************************************************)
(* Properties of the log lines of Modmail.archive_found.                   *)
(***************************************************************************)
\* C30 (as claimed): archive_found logs "Archived" for a conversation only
\* after it has called archive() on it and the call returned: it logs it
\* for no conversation whose archive() raised and for none it skipped as
\* internal.
C30_ArchivedLoggedOnlyOnSuccess ==
    \A k \in 1..Len(mm_actions) :
        mm_actions[k].op = "log Archived"
            => /\ \E j \in 1..(k - 1) : mm_actions[j] = Call("archive", mm_actions[k].id, TRUE)
               /\ ~FoundInternal(mm_actions[k].id)

====
